---- MODULE Spec2Model ----
(***************************************************************************)
(* Model of pve_cloud_rpc/server.py: the asyncio gRPC server `serve` and   *)
(* the handler CloudServiceServicer.GetMasterKubeconfig.                   *)
(*                                                                         *)
(* The three collaborators (get_online_pve_host, get_cloud_env,            *)
(* get_ssh_master_kubeconfig) are external: each invocation either returns *)
(* a value chosen by the environment or raises.  They are plain            *)
(* synchronous calls (no await), so a handler coroutine keeps the event    *)
(* loop from its first statement until it returns or raises.               *)
(* `log` records, per call, what mock collaborators would observe.         *)
(***************************************************************************)
EXTENDS Integers, Sequences, FiniteSets, TLC

\* ---- bounds and value universes ----
NumCalls == 2
Calls == 1..NumCalls

\* Requests (target_pve, stack_name) sent by clients; both fields may be
\* the empty string, the proto3 default.
Requests    == { <<"", "">>, <<"", "stack-x">>, <<"pve-a", "stack-x">> }
Hosts       == {"host-1", "host-2"}
ClusterVars == {"cvars-1", "cvars-2"}
Passes      == {"pass-1", "pass-2"}
Keys        == {"key-1", "key-2"}
\* Results of get_cloud_env offered by the environment: two that differ in
\* both credentials only, and one with other cluster_vars.
CloudEnvs   == { <<"cvars-1", "pass-1", "key-1">>,
                 <<"cvars-1", "pass-2", "key-2">>,
                 <<"cvars-2", "pass-1", "key-1">> }
Configs     == {"kubeconfig-1", "kubeconfig-2"}

Unbound == "<unbound>"
NoCall  == 0

FnDiscovery  == "get_online_pve_host"
FnCloudEnv   == "get_cloud_env"
FnKubeconfig == "get_ssh_master_kubeconfig"

listen_addr == "[::]:50051"

VARIABLES
    servePc,          \* position of the serve() coroutine
    registered,       \* servicers registered on the server
    ports,            \* addresses added with add_insecure_port
    serverStarted,    \* server.start() has completed
    terminated,       \* the server has been terminated from outside
    running,          \* call whose handler coroutine holds the event loop
    self_attrs,       \* instance attributes of the CloudServiceServicer
    pc,               \* per call: position of the handler
    req,              \* per call: the request message
    online_pve_host,  \* per call: local of the handler
    cluster_vars,     \* per call: local of the handler
    patroni_pass,     \* per call: local of the handler
    bind_internal_key,\* per call: local of the handler
    responses,        \* per call: responses handed to the RPC layer
    rpcError,         \* per call: exception left the handler
    log               \* per call: collaborator invocations and outcomes

vars == <<servePc, registered, ports, serverStarted, terminated, running,
          self_attrs, pc, req, online_pve_host, cluster_vars, patroni_pass,
          bind_internal_key, responses, rpcError, log>>

serverVars == <<servePc, registered, ports, serverStarted, terminated>>
localVars  == <<online_pve_host, cluster_vars, patroni_pass, bind_internal_key>>
callVars   == <<pc, req, online_pve_host, cluster_vars, patroni_pass,
                bind_internal_key, responses, rpcError, log, running,
                self_attrs>>

Event(ev, fn, data) == [ev |-> ev, fn |-> fn, data |-> data]

\* ---- expressions of the handler ----
HostDiscoveryArgs(c) == <<req[c].target_pve>>

\* Variant: the target identifier is handed to get_cloud_env.
CloudEnvArgs_Target(c, h) == <<req[c].target_pve>>

CloudEnvArgs(c, h) == <<h>>

\* Variant: the database password is handed on to kubeconfig retrieval.
KubeconfigArgs_LeakPass(c, cv, pp, bk) == <<cv, req[c].stack_name, pp>>

KubeconfigArgs(c, cv, pp, bk) == <<cv, req[c].stack_name>>

\* Variant: the config field is left at the proto3 default.
GetKubeconfigResponse_Default(config) == [config |-> ""]

GetKubeconfigResponse(config) == [config |-> config]

Init ==
    /\ servePc = "not_run"
    /\ registered = {}
    /\ ports = {}
    /\ serverStarted = FALSE
    /\ terminated = FALSE
    /\ running = NoCall
    /\ self_attrs = {}
    /\ pc = [c \in Calls |-> "none"]
    /\ req = [c \in Calls |-> [target_pve |-> Unbound, stack_name |-> Unbound]]
    /\ online_pve_host = [c \in Calls |-> Unbound]
    /\ cluster_vars = [c \in Calls |-> Unbound]
    /\ patroni_pass = [c \in Calls |-> Unbound]
    /\ bind_internal_key = [c \in Calls |-> Unbound]
    /\ responses = [c \in Calls |-> <<>>]
    /\ rpcError = [c \in Calls |-> FALSE]
    /\ log = [c \in Calls |-> <<>>]

\* ---- serve() / main() ----
Main ==
    /\ servePc = "not_run"
    /\ servePc' = "created"
    /\ UNCHANGED <<registered, ports, serverStarted, terminated>>
    /\ UNCHANGED callVars

AddServicer ==
    /\ servePc = "created"
    /\ registered' = registered \cup {"CloudServiceServicer"}
    /\ servePc' = "registered"
    /\ UNCHANGED <<ports, serverStarted, terminated>>
    /\ UNCHANGED callVars

AddInsecurePort ==
    /\ servePc = "registered"
    /\ ports' = ports \cup {listen_addr}
    /\ servePc' = "port_added"
    /\ UNCHANGED <<registered, serverStarted, terminated>>
    /\ UNCHANGED callVars

\* Variant: start() is awaited right after the server is created.
ServerStart_Early ==
    /\ servePc = "created"
    /\ serverStarted' = TRUE
    /\ servePc' = "started"
    /\ UNCHANGED <<registered, ports, terminated>>
    /\ UNCHANGED callVars

ServerStart ==
    /\ servePc = "port_added"
    /\ serverStarted' = TRUE
    /\ servePc' = "started"
    /\ UNCHANGED <<registered, ports, terminated>>
    /\ UNCHANGED callVars

WaitForTermination ==
    /\ servePc = "started"
    /\ servePc' = "waiting"
    /\ UNCHANGED <<registered, ports, serverStarted, terminated>>
    /\ UNCHANGED callVars

\* The environment stops the server; nothing in the program does.
Terminate ==
    /\ serverStarted
    /\ ~terminated
    /\ terminated' = TRUE
    /\ UNCHANGED <<servePc, registered, ports, serverStarted>>
    /\ UNCHANGED callVars

\* Variant: an exception of a handler ends wait_for_termination.
ServeReturn_OnFailure ==
    /\ servePc = "waiting"
    /\ terminated \/ \E c \in Calls : rpcError[c]
    /\ running = NoCall
    /\ servePc' = "returned"
    /\ UNCHANGED <<registered, ports, serverStarted, terminated>>
    /\ UNCHANGED callVars

ServeReturn ==
    /\ servePc = "waiting"
    /\ terminated
    /\ running = NoCall
    /\ servePc' = "returned"
    /\ UNCHANGED <<registered, ports, serverStarted, terminated>>
    /\ UNCHANGED callVars

\* ---- GetMasterKubeconfig ----
\* A request reaches the started server and is in flight.  Calls are
\* numbered in the order of their arrival.
Arrive(c, t, s) ==
    /\ pc[c] = "none"
    /\ \A d \in Calls : d < c => pc[d] # "none"
    /\ serverStarted
    /\ ~terminated
    /\ listen_addr \in ports
    /\ req' = [req EXCEPT ![c] = [target_pve |-> t, stack_name |-> s]]
    /\ pc' = [pc EXCEPT ![c] = "pending"]
    /\ UNCHANGED serverVars
    /\ UNCHANGED <<localVars, responses, rpcError, log, running, self_attrs>>

\* Variant: an empty target identifier is rejected before any collaborator.
HandlerStart_Validate(c) ==
    /\ pc[c] = "pending"
    /\ servePc = "waiting"
    /\ ~terminated
    /\ "CloudServiceServicer" \in registered
    /\ running = NoCall
    /\ IF req[c].target_pve = ""
         THEN /\ rpcError' = [rpcError EXCEPT ![c] = TRUE]
              /\ pc' = [pc EXCEPT ![c] = "failed"]
              /\ UNCHANGED <<log, running>>
         ELSE /\ running' = c
              /\ log' = [log EXCEPT ![c] =
                    Append(@, Event("call", FnDiscovery, HostDiscoveryArgs(c)))]
              /\ pc' = [pc EXCEPT ![c] = "discovery"]
              /\ UNCHANGED rpcError
    /\ UNCHANGED serverVars
    /\ UNCHANGED <<localVars, req, responses, self_attrs>>

\* The event loop runs the handler coroutine: lines 11-14 up to the
\* invocation of get_online_pve_host.
HandlerStart(c) ==
    /\ pc[c] = "pending"
    /\ servePc = "waiting"
    /\ ~terminated
    /\ "CloudServiceServicer" \in registered
    /\ running = NoCall
    /\ running' = c
    /\ log' = [log EXCEPT ![c] =
                 Append(@, Event("call", FnDiscovery, HostDiscoveryArgs(c)))]
    /\ pc' = [pc EXCEPT ![c] = "discovery"]
    /\ UNCHANGED serverVars
    /\ UNCHANGED <<localVars, req, responses, rpcError, self_attrs>>

\* Variant: environment resolution is skipped, kubeconfig retrieval comes
\* right after host discovery.
DiscoveryReturn_SkipEnv(c, h) ==
    /\ pc[c] = "discovery"
    /\ running = c
    /\ online_pve_host' = [online_pve_host EXCEPT ![c] = h]
    /\ log' = [log EXCEPT ![c] =
                 @ \o << Event("return", FnDiscovery, <<h>>),
                         Event("call", FnKubeconfig,
                               <<h, req[c].stack_name>>) >>]
    /\ pc' = [pc EXCEPT ![c] = "kubeconfig"]
    /\ UNCHANGED serverVars
    /\ UNCHANGED <<cluster_vars, patroni_pass, bind_internal_key, req,
                   responses, rpcError, running, self_attrs>>

\* get_online_pve_host returns h; line 15 invokes get_cloud_env.
DiscoveryReturn(c, h) ==
    /\ pc[c] = "discovery"
    /\ running = c
    /\ online_pve_host' = [online_pve_host EXCEPT ![c] = h]
    /\ log' = [log EXCEPT ![c] =
                 @ \o << Event("return", FnDiscovery, <<h>>),
                         Event("call", FnCloudEnv, CloudEnvArgs(c, h)) >>]
    /\ pc' = [pc EXCEPT ![c] = "env"]
    /\ UNCHANGED serverVars
    /\ UNCHANGED <<cluster_vars, patroni_pass, bind_internal_key, req,
                   responses, rpcError, running, self_attrs>>

\* Variant: the exception is caught and the collaborator is invoked again.
Raise_Retry(c, stage, fn) ==
    /\ pc[c] = stage
    /\ running = c
    /\ Len(log[c]) < 8
    /\ log' = [log EXCEPT ![c] =
                 @ \o << Event("raise", fn, <<>>),
                         Event("call", fn, log[c][Len(log[c])].data) >>]
    /\ UNCHANGED serverVars
    /\ UNCHANGED <<localVars, req, responses, rpcError, pc, running,
                   self_attrs>>

\* An exception raised by collaborator fn leaves the handler.
Raise(c, stage, fn) ==
    /\ pc[c] = stage
    /\ running = c
    /\ log' = [log EXCEPT ![c] = Append(@, Event("raise", fn, <<>>))]
    /\ rpcError' = [rpcError EXCEPT ![c] = TRUE]
    /\ pc' = [pc EXCEPT ![c] = "failed"]
    /\ running' = NoCall
    /\ UNCHANGED serverVars
    /\ UNCHANGED <<localVars, req, responses, self_attrs>>

DiscoveryRaise(c) == Raise(c, "discovery", FnDiscovery)

\* get_cloud_env returns the triple; line 17 invokes
\* get_ssh_master_kubeconfig.
EnvReturn(c, cv, pp, bk) ==
    /\ pc[c] = "env"
    /\ running = c
    /\ cluster_vars' = [cluster_vars EXCEPT ![c] = cv]
    /\ patroni_pass' = [patroni_pass EXCEPT ![c] = pp]
    /\ bind_internal_key' = [bind_internal_key EXCEPT ![c] = bk]
    /\ log' = [log EXCEPT ![c] =
                 @ \o << Event("return", FnCloudEnv, <<cv, pp, bk>>),
                         Event("call", FnKubeconfig,
                               KubeconfigArgs(c, cv, pp, bk)) >>]
    /\ pc' = [pc EXCEPT ![c] = "kubeconfig"]
    /\ UNCHANGED serverVars
    /\ UNCHANGED <<online_pve_host, req, responses, rpcError, running,
                   self_attrs>>

EnvRaise(c) == Raise(c, "env", FnCloudEnv)

\* Variant: the servicer keeps the first kubeconfig and serves it again.
KubeconfigReturn_Cached(c, k) ==
    /\ pc[c] = "kubeconfig"
    /\ running = c
    /\ log' = [log EXCEPT ![c] = Append(@, Event("return", FnKubeconfig, <<k>>))]
    /\ self_attrs' = IF self_attrs = {} THEN {<<"kubeconfig", k>>}
                                        ELSE self_attrs
    /\ responses' = [responses EXCEPT ![c] =
          Append(@, GetKubeconfigResponse(
                       (CHOOSE a \in self_attrs' : a[1] = "kubeconfig")[2]))]
    /\ pc' = [pc EXCEPT ![c] = "responded"]
    /\ running' = NoCall
    /\ UNCHANGED serverVars
    /\ UNCHANGED <<localVars, req, rpcError>>

\* get_ssh_master_kubeconfig returns k; the handler returns the response.
KubeconfigReturn(c, k) ==
    /\ pc[c] = "kubeconfig"
    /\ running = c
    /\ log' = [log EXCEPT ![c] = Append(@, Event("return", FnKubeconfig, <<k>>))]
    /\ responses' = [responses EXCEPT ![c] = Append(@, GetKubeconfigResponse(k))]
    /\ pc' = [pc EXCEPT ![c] = "responded"]
    /\ running' = NoCall
    /\ UNCHANGED serverVars
    /\ UNCHANGED <<localVars, req, rpcError, self_attrs>>

KubeconfigRaise(c) == Raise(c, "kubeconfig", FnKubeconfig)

Next ==
    \/ Main
    \/ AddServicer
    \/ AddInsecurePort
    \/ ServerStart
    \/ WaitForTermination
    \/ Terminate
    \/ ServeReturn
    \/ \E c \in Calls, r \in Requests : Arrive(c, r[1], r[2])
    \/ \E c \in Calls : HandlerStart(c)
    \/ \E c \in Calls, h \in Hosts : DiscoveryReturn(c, h)
    \/ \E c \in Calls : DiscoveryRaise(c)
    \/ \E c \in Calls, e \in CloudEnvs : EnvReturn(c, e[1], e[2], e[3])
    \/ \E c \in Calls : EnvRaise(c)
    \/ \E c \in Calls, k \in Configs : KubeconfigReturn(c, k)
    \/ \E c \in Calls : KubeconfigRaise(c)

Spec == Init /\ [][Next]_vars

TypeOK ==
    /\ servePc \in {"not_run", "created", "registered", "port_added",
                    "started", "waiting", "returned"}
    /\ running \in Calls \cup {NoCall}
    /\ \A c \in Calls :
          pc[c] \in {"none", "pending", "discovery", "env", "kubeconfig",
                     "responded", "failed"}

\* ---- observations on the recorded collaborator traffic ----
Last(l) == l[Len(l)]

Shape(l) == [i \in 1..Len(l) |-> <<l[i].ev, l[i].fn>>]

ShapeAt(l, i) == <<l[i].ev, l[i].fn>>

Credentials == Passes \cup Keys

ExpectedShape ==
    << <<"call", FnDiscovery>>,  <<"return", FnDiscovery>>,
       <<"call", FnCloudEnv>>,   <<"return", FnCloudEnv>>,
       <<"call", FnKubeconfig>>, <<"return", FnKubeconfig>> >>

IsCall(e) == e.ev = "call"
IsOutcome(e) == e.ev # "call"

Invocations(l, fn) == Cardinality({i \in 1..Len(l) : IsCall(l[i]) /\ l[i].fn = fn})

CallEvents(l) == SelectSeq(l, IsCall)
Outcomes(l) == SelectSeq(l, IsOutcome)

\* What the collaborators returned, with the two credentials blanked.
WithoutCredentials(l) ==
    [i \in 1..Len(l) |->
        IF l[i].ev = "return" /\ l[i].fn = FnCloudEnv
        THEN Event("return", FnCloudEnv, <<l[i].data[1]>>)
        ELSE l[i]]

Finished(c) == pc[c] \in {"responded", "failed"}
InExternal(c) == pc[c] \in {"discovery", "env", "kubeconfig"}
Handled(c) == pc[c] \notin {"none", "pending"}
Outcome(c) == <<pc[c], rpcError[c], responses[c]>>

Rank(fn) == CASE fn = FnDiscovery -> 1 [] fn = FnCloudEnv -> 2 [] fn = FnKubeconfig -> 3

\* C1: in every handling the collaborators are invoked in the order host
\* discovery, environment resolution, kubeconfig retrieval, each one
\* starting only after the previous one returned; a call that returned a
\* response invoked each of the three exactly once.
C1_InvocationOrder ==
    \A c \in Calls :
       /\ Len(log[c]) <= Len(ExpectedShape)
       /\ \A i \in 1..Len(log[c]) :
             \/ ShapeAt(log[c], i) = ExpectedShape[i]
             \/ /\ i = Len(log[c])
                /\ ExpectedShape[i][1] = "return"
                /\ ShapeAt(log[c], i) = <<"raise", ExpectedShape[i][2]>>
       /\ pc[c] = "responded" =>
             /\ Shape(log[c]) = ExpectedShape
             /\ \A fn \in {FnDiscovery, FnCloudEnv, FnKubeconfig} :
                   Invocations(log[c], fn) = 1

C1_Witness ==
    \E c \in Calls : pc[c] = "responded" /\ Len(log[c]) = 6

\* C2: the config field of the response of a call whose three collaborator
\* calls succeeded is exactly the value get_ssh_master_kubeconfig returned
\* to that call.
C2_ResponseIsKubeconfig ==
    \A c \in Calls :
       pc[c] = "responded" =>
          /\ Len(responses[c]) = 1
          /\ Last(log[c]).ev = "return"
          /\ Last(log[c]).fn = FnKubeconfig
          /\ responses[c][1].config = Last(log[c]).data[1]

C2_Witness ==
    \E c1, c2 \in Calls :
       /\ pc[c1] = "responded" /\ pc[c2] = "responded"
       /\ req[c1] = req[c2]
       /\ responses[c1][1].config = "kubeconfig-1"
       /\ responses[c2][1].config = "kubeconfig-2"

\* C3: a failure of a collaborator ends the call in an RPC failure without
\* a response; the failed collaborator is not invoked again and no later
\* collaborator is invoked for that call.
C3_FailurePropagates ==
    \A c \in Calls :
       \A i \in 1..Len(log[c]) :
          log[c][i].ev = "raise" =>
             /\ i = Len(log[c])
             /\ pc[c] = "failed"
             /\ rpcError[c]
             /\ responses[c] = <<>>
             /\ running # c
             /\ Invocations(log[c], log[c][i].fn) = 1
             /\ \A fn \in {FnDiscovery, FnCloudEnv, FnKubeconfig} :
                   Rank(fn) > Rank(log[c][i].fn) => Invocations(log[c], fn) = 0

C3_Witness ==
    \E c1, c2 \in Calls :
       /\ pc[c1] = "failed" /\ Last(log[c1]) = Event("raise", FnCloudEnv, <<>>)
       /\ pc[c2] = "failed" /\ Last(log[c2]) = Event("raise", FnDiscovery, <<>>)

\* C4: while one call is inside an external operation, another in-flight
\* call can still be started by the server.
C4_OthersNotBlocked ==
    \A c1, c2 \in Calls :
       (c1 # c2 /\ InExternal(c1) /\ pc[c2] = "pending" /\ ~terminated)
          => ENABLED HandlerStart(c2)

\* C5: no handler writes server state, and the outcome of a call is
\* determined by its request and by what the collaborators returned to it,
\* whatever other calls ran before or alongside it.
C5_Stateless ==
    /\ self_attrs = {}
    /\ \A c1, c2 \in Calls :
          (c1 < c2 /\ Finished(c1) /\ Finished(c2) /\ req[c1] = req[c2]
              /\ Outcomes(log[c1]) = Outcomes(log[c2]))
             => Outcome(c1) = Outcome(c2)

C5_Witness ==
    \E c1, c2 \in Calls :
       /\ c1 # c2
       /\ pc[c1] = "responded" /\ pc[c2] = "responded"
       /\ req[c1] = req[c2]
       /\ Outcomes(log[c1]) = Outcomes(log[c2])

\* C6: serve returns only after the server was terminated from outside,
\* however many calls were handled and however they ended.
C6_ReturnsOnlyAfterTermination ==
    servePc = "returned" => terminated /\ serverStarted

C6_Witness ==
    /\ servePc = "returned"
    /\ \E c \in Calls : pc[c] = "failed"
    /\ \E c \in Calls : pc[c] = "responded"

\* C7: host discovery receives the request's target_pve, environment
\* resolution the host returned by host discovery for this call, kubeconfig
\* retrieval the cluster_vars returned by environment resolution for this
\* call together with the request's stack_name, and nothing else.
C7_DataFlow ==
    \A c \in Calls :
       \A i \in 1..Len(log[c]) :
          IsCall(log[c][i]) =>
             CASE log[c][i].fn = FnDiscovery ->
                     log[c][i].data = <<req[c].target_pve>>
               [] log[c][i].fn = FnCloudEnv ->
                     /\ i > 1
                     /\ log[c][i-1] = Event("return", FnDiscovery, <<online_pve_host[c]>>)
                     /\ log[c][i].data = <<log[c][i-1].data[1]>>
               [] log[c][i].fn = FnKubeconfig ->
                     /\ i > 1
                     /\ log[c][i-1].ev = "return"
                     /\ log[c][i-1].fn = FnCloudEnv
                     /\ log[c][i-1].data[1] = cluster_vars[c]
                     /\ log[c][i].data = <<log[c][i-1].data[1], req[c].stack_name>>

C7_Witness ==
    \E c1, c2 \in Calls :
       /\ pc[c1] = "responded" /\ pc[c2] = "responded"
       /\ req[c1].target_pve # req[c1].stack_name
       /\ online_pve_host[c1] # online_pve_host[c2]
       /\ cluster_vars[c1] # cluster_vars[c2]

\* C8: the handler validates nothing: whatever the two strings are, host
\* discovery is invoked with the request's target_pve, and a call fails
\* only by an exception of a collaborator.
C8_NoValidation ==
    \A c \in Calls :
       /\ Handled(c) =>
             /\ Len(log[c]) >= 1
             /\ log[c][1] = Event("call", FnDiscovery, <<req[c].target_pve>>)
       /\ (rpcError[c] \/ pc[c] = "failed") =>
             /\ Len(log[c]) >= 2
             /\ Last(log[c]).ev = "raise"

C8_Witness ==
    \E c1, c2 \in Calls :
       /\ req[c1] = [target_pve |-> "", stack_name |-> ""]
       /\ pc[c1] = "responded"
       /\ req[c2].target_pve = ""
       /\ pc[c2] = "failed"

\* C9: patroni_pass and bind_internal_key reach no collaborator and no
\* response: two handlings of the same request that differ only in these
\* two values invoke the collaborators with the same arguments and end in
\* the same response.
C9_CredentialsUnused ==
    /\ \A c \in Calls :
          /\ \A i \in 1..Len(log[c]) :
                IsCall(log[c][i]) =>
                   \A j \in 1..Len(log[c][i].data) :
                      log[c][i].data[j] \notin Credentials
          /\ \A i \in 1..Len(responses[c]) :
                responses[c][i].config \notin Credentials
    /\ \A c1, c2 \in Calls :
          (c1 < c2 /\ Finished(c1) /\ Finished(c2) /\ req[c1] = req[c2]
              /\ WithoutCredentials(Outcomes(log[c1]))
                    = WithoutCredentials(Outcomes(log[c2])))
             => /\ CallEvents(log[c1]) = CallEvents(log[c2])
                /\ Outcome(c1) = Outcome(c2)

C9_Witness ==
    \E c1, c2 \in Calls :
       /\ pc[c1] = "responded" /\ pc[c2] = "responded"
       /\ req[c1] = req[c2]
       /\ patroni_pass[c1] # patroni_pass[c2]
       /\ bind_internal_key[c1] # bind_internal_key[c2]
       /\ WithoutCredentials(Outcomes(log[c1])) = WithoutCredentials(Outcomes(log[c2]))

\* C10: the servicer is registered and the insecure port [::]:50051 added
\* before the server is started, wait_for_termination is entered only
\* after start completed, and no call is handled unless the servicer is
\* registered and the server started.
C10_StartupOrder ==
    /\ serverStarted => ("CloudServiceServicer" \in registered /\ ports = {listen_addr})
    /\ servePc \in {"waiting", "returned"} => serverStarted
    /\ \A c \in Calls :
          Handled(c) => ("CloudServiceServicer" \in registered /\ serverStarted)

C10_Witness ==
    /\ servePc = "waiting"
    /\ \E c \in Calls : pc[c] = "responded"
====
